---- MODULE Spec2Model ----
(***************************************************************************)
(* Vanilla sparse Merkle tree (src/src/gadget_vsmt_2.rs) and its membership *)
(* verification gadget.  Scalars are modelled as natural numbers, the      *)
(* two-to-one hash as an injective function on pairs of naturals, the node *)
(* store as a function from byte strings to pairs of scalars.              *)
(***************************************************************************)
EXTENDS Integers, Sequences, FiniteSets, TLC

\* Depth of the tree (32 in the source, scaled down here).
TreeDepth == 3
\* Number of update calls made on one tree.
MaxUpdates == 2

VARIABLES depth, empty_tree_hashes, db, root, written, nupd, before, last

vars == <<depth, empty_tree_hashes, db, root, written, nupd, before, last>>

----------------------------------------------------------------------------
(* Scalars, bits and bytes (crate::scalar_utils)                           *)

RECURSIVE Pow2(_)
Pow2(n) == IF n = 0 THEN 1 ELSE 2 * Pow2(n - 1)

Reverse(s) == [i \in 1..Len(s) |-> s[Len(s) + 1 - i]]

\* get_bits: the low process_bits bits of the scalar, least significant first.
get_bits(scalar, process_bits) ==
    [i \in 1..process_bits |-> (scalar \div Pow2(i - 1)) % 2]

\* ScalarBits::from_scalar: the bit array of the scalar, truncated to
\* process_bits bits.
from_scalar(scalar, process_bits) == get_bits(scalar, process_bits)

is_lsb_set(bits) == bits[1] = 1

is_msb_set(bits) == bits[Len(bits)] = 1

\* Shift towards the least significant end: the lowest bit is dropped.
shr(bits) == [i \in 1..Len(bits) |-> IF i < Len(bits) THEN bits[i + 1] ELSE 0]

\* Shift towards the most significant end: the highest bit is dropped.
shl(bits) == [i \in 1..Len(bits) |-> IF i > 1 THEN bits[i - 1] ELSE 0]

\* Scalar::to_bytes: little-endian bytes of fixed width (the store key).
to_bytes(s) ==
    <<s % 256, (s \div 256) % 256, (s \div 65536) % 256, (s \div 16777216) % 256>>

----------------------------------------------------------------------------
(* The two-to-one hash (crate::gadget_poseidon), deterministic and         *)
(* collision-free: an injective pairing of naturals, larger than both      *)
(* inputs.  Integers are 32 bits wide here: an input outside 0..46339      *)
(* (the square of 46340 is the last one below 2^31) gives the saturated    *)
(* digest 2^31-1, which no digest of a tree equals (DigestsExact below),   *)
(* so every comparison of a fold with a root is the one an injective hash  *)
(* gives.                                                                  *)

Poseidon_hash_2(l, r) ==
    IF l < 0 \/ r < 0 \/ l > 46339 \/ r > 46339 THEN 2147483647
    ELSE IF l >= r THEN l * l + l + r + 1 ELSE r * r + l + 1

\* Option<Vec<Scalar>> and Option<&Scalar>
NoneVec == [some |-> FALSE, v |-> <<>>]
NoneScalar == [some |-> FALSE, v |-> 0]
Some(x) == [some |-> TRUE, v |-> x]

\* HashMap::insert: the value of an existing key is replaced.
HashMapInsert(store, k, v) ==
    [x \in (DOMAIN store) \cup {k} |-> IF x = k THEN v ELSE store[x]]

EmptyMap == [x \in {} |-> <<0, 0>>]

----------------------------------------------------------------------------
(* VanillaSparseMerkleTree                                                 *)

\* new_level with the pair stored under the digest of the level below.
new_level_prev_key(hashes, store, i) ==
    LET prev == hashes[i]
        nw   == Poseidon_hash_2(prev, prev)
        key  == to_bytes(prev)
    IN  [empty_tree_hashes |-> Append(hashes, nw),
         db |-> HashMapInsert(store, key, <<prev, prev>>)]

\* One iteration of the loop of new, for i in 1..=depth.
new_level(hashes, store, i) ==
    LET prev == hashes[i]
        nw   == Poseidon_hash_2(prev, prev)
        key  == to_bytes(nw)
    IN  [empty_tree_hashes |-> Append(hashes, nw),
         db |-> HashMapInsert(store, key, <<prev, prev>>)]

RECURSIVE new_loop(_, _, _, _)
new_loop(d, i, hashes, store) ==
    IF i > d THEN [empty_tree_hashes |-> hashes, db |-> store]
    ELSE LET s == new_level(hashes, store, i)
         IN  new_loop(d, i + 1, s.empty_tree_hashes, s.db)

\* VanillaSparseMerkleTree::new
new ==
    LET d == TreeDepth
        t == new_loop(d, 1, <<0>>, EmptyMap)
    IN  [depth |-> d,
         empty_tree_hashes |-> t.empty_tree_hashes,
         db |-> t.db,
         root |-> t.empty_tree_hashes[d + 1]]

\* get_level with the sibling put in front of the proof instead of behind.
get_level_prepend(v, cur_idx, proof_vec, need_proof) ==
    IF is_msb_set(cur_idx)
    THEN [cur_node |-> v[2],
          proof_vec |-> IF need_proof THEN <<v[1]>> \o proof_vec ELSE proof_vec]
    ELSE [cur_node |-> v[1],
          proof_vec |-> IF need_proof THEN <<v[2]>> \o proof_vec ELSE proof_vec]

\* One iteration of the loop of get: v is the pair stored under the
\* current node.
get_level(v, cur_idx, proof_vec, need_proof) ==
    IF is_msb_set(cur_idx)
    THEN [cur_node |-> v[2],
          proof_vec |-> IF need_proof THEN Append(proof_vec, v[1]) ELSE proof_vec]
    ELSE [cur_node |-> v[1],
          proof_vec |-> IF need_proof THEN Append(proof_vec, v[2]) ELSE proof_vec]

RECURSIVE get_loop(_, _, _, _, _, _)
get_loop(self, cur_idx, cur_node, proof_vec, need_proof, i) ==
    IF i = self.depth
    THEN [status |-> "ok", cur_node |-> cur_node, proof_vec |-> proof_vec]
    ELSE LET k == to_bytes(cur_node)
         IN  IF k \notin DOMAIN self.db
             THEN [status |-> "panic", cur_node |-> cur_node, proof_vec |-> proof_vec]
             ELSE LET s == get_level(self.db[k], cur_idx, proof_vec, need_proof)
                  IN  get_loop(self, shl(cur_idx), s.cur_node, s.proof_vec,
                               need_proof, i + 1)

\* VanillaSparseMerkleTree::get.  proof is the caller's Option<Vec<Scalar>>;
\* the result carries the leaf reached and the caller's proof afterwards.
get(self, idx, proof) ==
    LET cur_idx == from_scalar(idx, TreeDepth)
        r == get_loop(self, cur_idx, self.root, <<>>, proof.some, 0)
    IN  [status |-> r.status,
         ret |-> r.cur_node,
         proof |-> IF r.status = "ok" /\ proof.some
                   THEN Some(proof.v \o r.proof_vec) ELSE proof]

\* update_db_with_key_val that stores nothing.
update_db_with_key_val_dropped(store, key, val) == store

\* update_db_with_key_val that empties the store before it inserts.
update_db_with_key_val_cleared(store, key, val) ==
    HashMapInsert(EmptyMap, to_bytes(key), val)

\* VanillaSparseMerkleTree::update_db_with_key_val
update_db_with_key_val(store, key, val) == HashMapInsert(store, to_bytes(key), val)

\* update_level storing the pair (new value, sibling) whichever side the
\* new value was hashed on.
update_level_pair_left(store, side_elem, cur_idx, cur_val) ==
    IF is_lsb_set(cur_idx)
    THEN LET h == Poseidon_hash_2(side_elem, cur_val)
         IN  [db |-> update_db_with_key_val(store, h, <<cur_val, side_elem>>),
              new_val |-> h]
    ELSE LET h == Poseidon_hash_2(cur_val, side_elem)
         IN  [db |-> update_db_with_key_val(store, h, <<cur_val, side_elem>>),
              new_val |-> h]

\* One iteration of the loop of update.
update_level(store, side_elem, cur_idx, cur_val) ==
    IF is_lsb_set(cur_idx)
    THEN LET h == Poseidon_hash_2(side_elem, cur_val)
         IN  [db |-> update_db_with_key_val(store, h, <<side_elem, cur_val>>),
              new_val |-> h]
    ELSE LET h == Poseidon_hash_2(cur_val, side_elem)
         IN  [db |-> update_db_with_key_val(store, h, <<cur_val, side_elem>>),
              new_val |-> h]

RECURSIVE update_loop(_, _, _, _, _, _)
update_loop(d, store, sidenodes, cur_idx, cur_val, i) ==
    IF i = d
    THEN [status |-> "ok", db |-> store, cur_val |-> cur_val]
    ELSE IF Len(sidenodes) = 0
    THEN [status |-> "panic", db |-> store, cur_val |-> cur_val]
    ELSE LET side_elem == sidenodes[Len(sidenodes)]
             rest == SubSeq(sidenodes, 1, Len(sidenodes) - 1)
             s == update_level(store, side_elem, cur_idx, cur_val)
         IN  update_loop(d, s.db, rest, shr(cur_idx), s.new_val, i + 1)

\* update that returns the folded value without assigning the root field.
update_root_kept(self, idx, val) ==
    LET g == get(self, idx, Some(<<>>))
    IN  IF g.status # "ok"
        THEN [status |-> "panic", self |-> self, ret |-> 0]
        ELSE LET r == update_loop(self.depth, self.db, g.proof.v,
                                  from_scalar(idx, TreeDepth), val, 0)
             IN  IF r.status # "ok"
                 THEN [status |-> "panic",
                       self |-> [self EXCEPT !.db = r.db], ret |-> 0]
                 ELSE [status |-> "ok",
                       self |-> [self EXCEPT !.db = r.db],
                       ret |-> r.cur_val]

\* VanillaSparseMerkleTree::update: the tree afterwards and the value
\* returned.  A failed lookup in the get step ends the call before any
\* insertion.
update(self, idx, val) ==
    LET g == get(self, idx, Some(<<>>))
    IN  IF g.status # "ok"
        THEN [status |-> "panic", self |-> self, ret |-> 0]
        ELSE LET r == update_loop(self.depth, self.db, g.proof.v,
                                  from_scalar(idx, TreeDepth), val, 0)
             IN  IF r.status # "ok"
                 THEN [status |-> "panic",
                       self |-> [self EXCEPT !.db = r.db], ret |-> 0]
                 ELSE [status |-> "ok",
                       self |-> [self EXCEPT !.db = r.db, !.root = r.cur_val],
                       ret |-> r.cur_val]

\* verify_level reading proof[i] instead of proof[self.depth-1-i].
verify_level_forward(d, proof, cur_idx, cur_val, i) ==
    IF i >= Len(proof)
    THEN [status |-> "panic", cur_val |-> cur_val]
    ELSE IF is_lsb_set(cur_idx)
    THEN [status |-> "ok", cur_val |-> Poseidon_hash_2(proof[i + 1], cur_val)]
    ELSE [status |-> "ok", cur_val |-> Poseidon_hash_2(cur_val, proof[i + 1])]

\* verify_level with the running value always put left.
verify_level_left(d, proof, cur_idx, cur_val, i) ==
    IF d - 1 - i >= Len(proof)
    THEN [status |-> "panic", cur_val |-> cur_val]
    ELSE [status |-> "ok",
          cur_val |-> Poseidon_hash_2(cur_val, proof[(d - 1 - i) + 1])]

\* One iteration of the loop of verify_proof: the slice access
\* proof[self.depth-1-i] fails when the slice is too short.
verify_level(d, proof, cur_idx, cur_val, i) ==
    IF d - 1 - i >= Len(proof)
    THEN [status |-> "panic", cur_val |-> cur_val]
    ELSE IF is_lsb_set(cur_idx)
    THEN [status |-> "ok",
          cur_val |-> Poseidon_hash_2(proof[(d - 1 - i) + 1], cur_val)]
    ELSE [status |-> "ok",
          cur_val |-> Poseidon_hash_2(cur_val, proof[(d - 1 - i) + 1])]

RECURSIVE verify_loop(_, _, _, _, _)
verify_loop(d, proof, cur_idx, cur_val, i) ==
    IF i = d THEN [status |-> "ok", cur_val |-> cur_val]
    ELSE LET s == verify_level(d, proof, cur_idx, cur_val, i)
         IN  IF s.status # "ok" THEN s
             ELSE verify_loop(d, proof, shr(cur_idx), s.cur_val, i + 1)

\* verify_proof comparing with the current root whatever root is supplied.
verify_proof_current_root(self, idx, val, proof, root_opt) ==
    LET r == verify_loop(self.depth, proof, from_scalar(idx, TreeDepth), val, 0)
    IN  IF r.status # "ok" THEN [status |-> "panic", ret |-> FALSE]
        ELSE [status |-> "ok", ret |-> r.cur_val = self.root]

\* verify_proof requiring the fold to equal the current root as well as the
\* root supplied.
verify_proof_both_roots(self, idx, val, proof, root_opt) ==
    LET r == verify_loop(self.depth, proof, from_scalar(idx, TreeDepth), val, 0)
    IN  IF r.status # "ok" THEN [status |-> "panic", ret |-> FALSE]
        ELSE [status |-> "ok",
              ret |-> IF root_opt.some
                      THEN r.cur_val = root_opt.v /\ r.cur_val = self.root
                      ELSE r.cur_val = self.root]

\* VanillaSparseMerkleTree::verify_proof
verify_proof(self, idx, val, proof, root_opt) ==
    LET r == verify_loop(self.depth, proof, from_scalar(idx, TreeDepth), val, 0)
    IN  IF r.status # "ok" THEN [status |-> "panic", ret |-> FALSE]
        ELSE [status |-> "ok",
              ret |-> IF root_opt.some THEN r.cur_val = root_opt.v
                      ELSE r.cur_val = self.root]

----------------------------------------------------------------------------
(* The membership verification gadget.  A linear combination is modelled   *)
(* by its value under the committed assignment; the constraint system      *)
(* records the multiplication gates allocated, the hash gadget             *)
(* invocations and the equality constraints added.                         *)

NewCS == [multipliers |-> <<>>, hashes |-> <<>>, constraints |-> <<>>]

\* ConstraintSystem::multiply: allocates one gate and returns its product.
multiply(sys, l, r) ==
    [cs |-> [sys EXCEPT !.multipliers = Append(@, <<l, r, l * r>>)],
     out |-> l * r]

\* Poseidon_hash_2_constraints: constrains its result to the hash of the
\* two inputs, or fails (fails is the engine's resource exhaustion).
Poseidon_hash_2_constraints(sys, left, right, fails) ==
    IF fails
    THEN [status |-> "Err", cs |-> sys, out |-> 0]
    ELSE [status |-> "Ok",
          cs |-> [sys EXCEPT !.hashes = Append(@, <<left, right>>)],
          out |-> Poseidon_hash_2(left, right)]

\* constrain_lc_with_scalar: lc - scalar = 0.
constrain_lc_with_scalar(sys, lc, scalar) ==
    [sys EXCEPT !.constraints = Append(@, <<lc, scalar>>)]

\* gadget_level with left and right exchanged.
gadget_level_swapped(sys, leaf_val_lc, bit, proof_node, fails) ==
    LET one_minus_leaf_side == 1 - bit
        m1 == multiply(sys, one_minus_leaf_side, leaf_val_lc)
        m2 == multiply(m1.cs, bit, proof_node)
        left == m1.out + m2.out
        m3 == multiply(m2.cs, bit, leaf_val_lc)
        m4 == multiply(m3.cs, one_minus_leaf_side, proof_node)
        right == m3.out + m4.out
    IN  Poseidon_hash_2_constraints(m4.cs, right, left, fails)

\* gadget_level with a fifth gate, bit * (1 - bit).
gadget_level_boolean_gate(sys, leaf_val_lc, bit, proof_node, fails) ==
    LET one_minus_leaf_side == 1 - bit
        m0 == multiply(sys, bit, one_minus_leaf_side)
        m1 == multiply(m0.cs, one_minus_leaf_side, leaf_val_lc)
        m2 == multiply(m1.cs, bit, proof_node)
        left == m1.out + m2.out
        m3 == multiply(m2.cs, bit, leaf_val_lc)
        m4 == multiply(m3.cs, one_minus_leaf_side, proof_node)
        right == m3.out + m4.out
    IN  Poseidon_hash_2_constraints(m4.cs, left, right, fails)

\* One iteration of the loop of the gadget.
gadget_level(sys, leaf_val_lc, bit, proof_node, fails) ==
    LET one_minus_leaf_side == 1 - bit
        m1 == multiply(sys, one_minus_leaf_side, leaf_val_lc)
        m2 == multiply(m1.cs, bit, proof_node)
        left == m1.out + m2.out
        m3 == multiply(m2.cs, bit, leaf_val_lc)
        m4 == multiply(m3.cs, one_minus_leaf_side, proof_node)
        right == m3.out + m4.out
    IN  Poseidon_hash_2_constraints(m4.cs, left, right, fails)

RECURSIVE gadget_loop(_, _, _, _, _, _, _, _)
gadget_loop(sys, d, leaf_val, leaf_index_bits, proof_nodes, fail_at, prev_hash, i) ==
    IF i = d THEN [status |-> "Ok", cs |-> sys, prev_hash |-> prev_hash]
    ELSE IF i >= Len(leaf_index_bits) \/ i >= Len(proof_nodes)
    THEN [status |-> "panic", cs |-> sys, prev_hash |-> prev_hash]
    ELSE LET leaf_val_lc == IF i = 0 THEN leaf_val ELSE prev_hash
             h == gadget_level(sys, leaf_val_lc, leaf_index_bits[i + 1],
                               proof_nodes[i + 1], fail_at = i)
         IN  IF h.status # "Ok"
             THEN [status |-> "Err", cs |-> h.cs, prev_hash |-> prev_hash]
             ELSE gadget_loop(h.cs, d, leaf_val, leaf_index_bits, proof_nodes,
                              fail_at, h.out, i + 1)

\* The gadget without its final constraint on the root.
vanilla_merkle_merkle_tree_verif_gadget_no_root(sys, d, root_scalar, leaf_val, leaf_index_bits, proof_nodes, fail_at) ==
    LET r == gadget_loop(sys, d, leaf_val, leaf_index_bits, proof_nodes,
                         fail_at, 0, 0)
    IN  IF r.status # "Ok" THEN [status |-> r.status, cs |-> r.cs]
        ELSE [status |-> "Ok", cs |-> r.cs]

\* The gadget adding its final constraint even when a level has failed.
vanilla_merkle_merkle_tree_verif_gadget_constrain_on_err(sys, d, root_scalar, leaf_val, leaf_index_bits, proof_nodes, fail_at) ==
    LET r == gadget_loop(sys, d, leaf_val, leaf_index_bits, proof_nodes,
                         fail_at, 0, 0)
    IN  IF r.status = "panic" THEN [status |-> r.status, cs |-> r.cs]
        ELSE [status |-> r.status,
              cs |-> constrain_lc_with_scalar(r.cs, r.prev_hash, root_scalar)]

\* vanilla_merkle_merkle_tree_verif_gadget: the Result and the constraint
\* system afterwards.  fail_at is the level at which the hash gadget fails
\* (d and above: it never fails).
vanilla_merkle_merkle_tree_verif_gadget(sys, d, root_scalar, leaf_val, leaf_index_bits, proof_nodes, fail_at) ==
    LET r == gadget_loop(sys, d, leaf_val, leaf_index_bits, proof_nodes,
                         fail_at, 0, 0)
    IN  IF r.status # "Ok" THEN [status |-> r.status, cs |-> r.cs]
        ELSE [status |-> "Ok",
              cs |-> constrain_lc_with_scalar(r.cs, r.prev_hash, root_scalar)]

\* The committed assignment satisfies the constraints the gadget built:
\* construction succeeded and every equality constraint holds (the gates
\* and the hash gadget determine their outputs from the assignment).
Satisfied(g) ==
    /\ g.status = "Ok"
    /\ \A k \in 1..Len(g.cs.constraints) :
           g.cs.constraints[k][1] = g.cs.constraints[k][2]

----------------------------------------------------------------------------
(* The state machine: one tree and the calls made on it.  last is the      *)
(* most recent call with its arguments and its outcome (for a gadget run,  *)
(* the constraint system it built); before is the tree as it was when the  *)
(* most recent update was called.                                          *)

\* The tree object.
Tree == [depth |-> depth, empty_tree_hashes |-> empty_tree_hashes,
         db |-> db, root |-> root]

\* Scalars passed as idx: in range with the lowest bit set, in range with
\* the highest bit set, and one beyond the TreeDepth bits that from_scalar
\* keeps.
Indices == {1, Pow2(TreeDepth) - 2, Pow2(TreeDepth) + 1}

\* Every path of the tree.
Paths == 0..(Pow2(TreeDepth) - 1)

\* Leaf values passed to update: the empty leaf, and a scalar that is also
\* the digest of an empty pair.
Vals == {0, Poseidon_hash_2(0, 0)}

\* The proof get(idx) populates into an empty vector.
ProofOf(self, idx) == get(self, idx, Some(<<>>)).proof.v

\* The leaf get(idx) returns.
LeafOf(self, idx) == get(self, idx, NoneVec).ret

\* s with entry k replaced by x.
Replace(s, k, x) == [s EXCEPT ![k] = x]

\* Digests a sibling is replaced by: the leaf values and the default
\* hashes.
Digests == Vals \cup {empty_tree_hashes[k] : k \in 1..Len(empty_tree_hashes)}

\* Arguments handed to verify_proof, each tagged with how it differs from
\* what get(idx) returned: not at all, in idx, in val, in one sibling, by
\* reversal, by length; and (stale) the value and proof get(idx) returned
\* before the most recent update, when that update gave another index a
\* value different from the one stored there, with no root or with the
\* root of that earlier state.
VerifyInputs ==
    UNION {
      LET p == ProofOf(Tree, i)
          v == LeafOf(Tree, i)
          in(alt, idx, val, proof, root_opt) ==
              [alt |-> alt, idx |-> idx, val |-> val, proof |-> proof,
               root_opt |-> root_opt]
      IN  {in("none", i, v, p, r) : r \in {NoneScalar, Some(root)}}
          \cup {in("idx", j, v, p, NoneScalar) : j \in Indices \ {i}}
          \cup {in("val", i, w, p, NoneScalar) : w \in Vals \ {v}}
          \cup {in("sibling", i, v, Replace(p, k, x), NoneScalar) :
                   k \in {1, Len(p)}, x \in {0, empty_tree_hashes[2]} \ {p[1], p[Len(p)]}}
          \cup {in("reverse", i, v, Reverse(p), NoneScalar),
                in("short", i, v, SubSeq(p, 2, Len(p)), NoneScalar),
                in("long", i, v, p \o <<0>>, NoneScalar),
                in("long", i, v, <<0>> \o p, NoneScalar)}
          \cup {in("stale", i, LeafOf(before, i), ProofOf(before, i), r) :
                   r \in IF \E j \in Indices \ {i} :
                               LeafOf(before, j) # LeafOf(Tree, j)
                         THEN {NoneScalar, Some(before.root)} ELSE {}}
      : i \in Indices }

\* Assignments committed for a gadget run, tagged the same way; the
\* selector bits are get_bits(idx), the siblings the reverse of get's proof.
\* A selector may also be committed to a scalar that is no bit (nonbool).
GadgetInputs ==
    UNION {
      LET p == Reverse(ProofOf(Tree, i))
          v == LeafOf(Tree, i)
          b == get_bits(i, TreeDepth)
          in(alt, val, bits, nodes, fail_at) ==
              [alt |-> alt, val |-> val, bits |-> bits, nodes |-> nodes,
               fail_at |-> fail_at]
      IN  {in("none", v, b, p, f) : f \in 0..depth}
          \cup {in("val", w, b, p, depth) : w \in Vals \ {v}}
          \cup {in("bit", v, Replace(b, k, 1 - b[k]), p, depth) : k \in {1, Len(b)}}
          \cup {in("nonbool", v, Replace(b, k, 2), p, depth) : k \in {1, Len(b)}}
          \cup {in("sibling", v, b, Replace(p, 1, x), depth) :
                   x \in {0, empty_tree_hashes[2]} \ {p[1]}}
          \cup {in("reverse", v, b, Reverse(p), depth),
                in("short", v, b, SubSeq(p, 2, Len(p)), depth)}
      : i \in Indices }

\* What a run of the gadget left in the constraint system: the number of
\* multiplication gates, of hash gadget invocations and of equality
\* constraints.
Shape(sys) == [multipliers |-> Len(sys.multipliers), hashes |-> Len(sys.hashes),
               constraints |-> Len(sys.constraints)]

\* The record of a call: the operation, how its arguments differ from what
\* get returned (alt), for update and get the index, for update the value,
\* for verify_proof whether a root was supplied, and the outcome: whether
\* it returned (status), the scalar (ret), boolean (ok) or proof (proof)
\* returned, and the shape of the constraint system built (cs).
NoCall == [op |-> "new", alt |-> "none", idx |-> 0, val |-> 0,
           root_some |-> FALSE, status |-> "ok", ret |-> 0, ok |-> FALSE,
           proof |-> <<>>, repeat |-> FALSE, cs |-> Shape(NewCS)]

Init ==
    /\ depth = new.depth
    /\ empty_tree_hashes = new.empty_tree_hashes
    /\ db = new.db
    /\ root = new.root
    /\ written = [x \in {} |-> 0]
    /\ nupd = 0
    /\ before = new
    /\ last = NoCall

\* tree.update(idx, val)
Update(idx, val) ==
    /\ nupd < MaxUpdates
    /\ LET u == update(Tree, idx, val)
       IN  /\ db' = u.self.db
           /\ root' = u.self.root
           /\ written' = IF u.status = "ok"
                         THEN [x \in (DOMAIN written) \cup {idx} |->
                                  IF x = idx THEN val ELSE written[x]]
                         ELSE written
           /\ last' = [NoCall EXCEPT !.op = "update", !.idx = idx, !.val = val,
                          !.status = u.status, !.ret = u.ret,
                          !.repeat = (last.op = "update" /\ last.idx = idx
                                      /\ last.val = val)]
    /\ before' = Tree
    /\ nupd' = nupd + 1
    /\ UNCHANGED <<depth, empty_tree_hashes>>

\* tree.get(idx, &mut proof_in)
Get(idx, proof_in) ==
    /\ LET g == get(Tree, idx, proof_in)
       IN  last' = [NoCall EXCEPT !.op = "get", !.idx = idx,
                       !.alt = IF ~proof_in.some THEN "noproof"
                               ELSE IF proof_in.v = <<>> THEN "none" ELSE "long",
                       !.status = g.status, !.ret = g.ret, !.proof = g.proof.v]
    /\ UNCHANGED <<depth, empty_tree_hashes, db, root, written, nupd, before>>

\* tree.verify_proof(idx, val, &proof, root_opt)
VerifyProof(alt, idx, val, proof, root_opt) ==
    /\ LET r == verify_proof(Tree, idx, val, proof, root_opt)
       IN  last' = [NoCall EXCEPT !.op = "verify_proof", !.alt = alt,
                       !.root_some = root_opt.some,
                       !.status = r.status, !.ok = r.ret]
    /\ UNCHANGED <<depth, empty_tree_hashes, db, root, written, nupd, before>>

\* The gadget run on a fresh constraint system, as in test_VSMT_Verif: the
\* leaf, the selector bits and the siblings are the committed values.
Gadget(alt, leaf_val, bits, nodes, fail_at) ==
    /\ LET g == vanilla_merkle_merkle_tree_verif_gadget(NewCS, depth, root,
                    leaf_val, bits, nodes, fail_at)
       IN  last' = [NoCall EXCEPT !.op = "gadget", !.alt = alt,
                       !.status = g.status, !.ok = Satisfied(g),
                       !.cs = Shape(g.cs)]
    /\ UNCHANGED <<depth, empty_tree_hashes, db, root, written, nupd, before>>

Next ==
    \/ \E idx \in Indices, val \in Vals : Update(idx, val)
    \/ \E idx \in Indices, p \in {NoneVec, Some(<<>>), Some(<<0>>)} : Get(idx, p)
    \/ \E in \in VerifyInputs :
          VerifyProof(in.alt, in.idx, in.val, in.proof, in.root_opt)
    \/ \E in \in GadgetInputs :
          Gadget(in.alt, in.val, in.bits, in.nodes, in.fail_at)

Spec == Init /\ [][Next]_vars

----------------------------------------------------------------------------
(* Properties                                                              *)

\* Indices the properties range over: every path, and the scalars beyond.
AllIdx == Paths \cup Indices

\* Indices whose proofs are altered: those written, and a path never
\* written.
ProbeIdx == Indices \cup {0}

\* Bit i (0 = least significant) of the path from_scalar keeps of idx.
PathBit(idx, i) == (idx \div Pow2(i)) % 2

\* The folded value below level n for leaf val and leaf-first siblings:
\* level i puts the running value right when bit i of idx is set.
RECURSIVE Fold(_, _, _, _)
Fold(idx, val, siblings, n) ==
    IF n = 0 THEN val
    ELSE LET below == Fold(idx, val, siblings, n - 1)
         IN  IF PathBit(idx, n - 1) = 1
             THEN Poseidon_hash_2(siblings[n], below)
             ELSE Poseidon_hash_2(below, siblings[n])

\* Every node and child the store holds.
StoreNodes == UNION {{db[k][1], db[k][2]} : k \in DOMAIN db}

\* No digest of the tree is the saturated one, so the hash is injective on
\* everything the tree holds.
DigestsExact ==
    /\ root < 2147483647
    /\ \A x \in StoreNodes : x < 2147483647

\* The state new or update left: get, verify_proof and the gadget do not
\* touch the tree (ReadsKeepTree), so the trees of these states are all the
\* trees there are, and a property of the tree alone is evaluated in them.
AfterWrite == last.op \in {"new", "update"}

\* get, verify_proof and the gadget leave every field of the tree alone.
ReadsKeepTree ==
    [][last'.op # "update" => UNCHANGED <<depth, empty_tree_hashes, db, root>>]_vars

\* verify_proof returned true.
Accepts(idx, val, proof, root_opt) ==
    verify_proof(Tree, idx, val, proof, root_opt) = [status |-> "ok", ret |-> TRUE]

\* verify_proof returned false.
Rejects(idx, val, proof, root_opt) ==
    verify_proof(Tree, idx, val, proof, root_opt) = [status |-> "ok", ret |-> FALSE]

\* C1: after any sequence of updates, get(idx) returns the value of the
\* most recent update of idx, for every idx written.
C1_RoundTrip ==
    \A idx \in DOMAIN written : LeafOf(Tree, idx) = written[idx]

\* The round trip where no two written indices share a path: get(idx)
\* returns the value of the most recent update of idx when no other written
\* index agrees with idx on the TreeDepth bits from_scalar keeps.
RoundTripByPath ==
    \A idx \in DOMAIN written :
        (\A j \in DOMAIN written :
             j # idx => from_scalar(j, TreeDepth) # from_scalar(idx, TreeDepth))
        => LeafOf(Tree, idx) = written[idx]

\* C2: in every reachable state and for every idx, the value and proof
\* get(idx) returns verify against the current root, with no override and
\* with the current root as override, the proof passed as get returned it.
C2_ProofSoundness ==
    /\ AfterWrite =>
          \A idx \in AllIdx :
              LET g == get(Tree, idx, Some(<<>>))
              IN  /\ g.status = "ok"
                  /\ Accepts(idx, g.ret, g.proof.v, NoneScalar)
                  /\ Accepts(idx, g.ret, g.proof.v, Some(root))
    /\ (last.op = "verify_proof" /\ last.alt = "none") =>
          (last.status = "ok" /\ last.ok)

C2_Witness ==
    /\ nupd > 0
    /\ root # empty_tree_hashes[depth + 1]
    /\ last.op = "verify_proof" /\ last.alt = "none" /\ last.root_some
    /\ last.status = "ok" /\ last.ok

\* C3 as stated: get returns the siblings root-first and verify_proof
\* takes them leaf-first, so verify_proof accepts the reverse of what get
\* returns.
C3_AcceptsReverse ==
    \A idx \in AllIdx :
        LET g == get(Tree, idx, Some(<<>>))
        IN  Accepts(idx, g.ret, Reverse(g.proof.v), NoneScalar)

\* C3 amended: get, given an empty vector, returns depth siblings
\* root-first (entry 0 is the sibling of the root's child on the path, the
\* last entry the sibling of the leaf), and verify_proof takes its proof in
\* that same root-first order: it accepts the sequence as get returns it,
\* and the reversed sequence only when reversal leaves it unchanged.
C3_ProofOrder ==
    /\ AfterWrite =>
          \A idx \in AllIdx :
              LET g == get(Tree, idx, Some(<<>>))
                  p == g.proof.v
                  top == db[to_bytes(root)]
                  parent == IF PathBit(idx, 0) = 1
                            THEN Poseidon_hash_2(p[depth], g.ret)
                            ELSE Poseidon_hash_2(g.ret, p[depth])
              IN  /\ g.status = "ok"
                  /\ Len(p) = depth
                  /\ p[1] = IF PathBit(idx, depth - 1) = 1 THEN top[1] ELSE top[2]
                  /\ to_bytes(parent) \in DOMAIN db
                  /\ Fold(idx, g.ret, Reverse(p), depth) = root
                  /\ Accepts(idx, g.ret, p, NoneScalar)
                  /\ Accepts(idx, g.ret, Reverse(p), NoneScalar) => Reverse(p) = p
    /\ (last.op = "verify_proof" /\ last.alt = "reverse") =>
          (last.status = "ok" /\ ~last.ok)
    /\ (last.op = "get" /\ last.alt = "none") =>
          (last.status = "ok" /\ Len(last.proof) = depth)

C3_Witness ==
    /\ nupd > 0
    /\ root # empty_tree_hashes[depth + 1]
    /\ last.op = "verify_proof" /\ last.alt = "reverse"
    /\ last.status = "ok" /\ ~last.ok

\* C4 as stated: for every (idx, val, proof) verify_proof accepts against
\* the current root, a different val, a different idx, or a different
\* digest in place of any one sibling makes verify_proof return false.
C4_AnyAlterationRejected ==
    \A idx \in ProbeIdx :
        LET p == ProofOf(Tree, idx)
            v == LeafOf(Tree, idx)
        IN  Accepts(idx, v, p, NoneScalar) =>
              /\ \A w \in (Vals \cup StoreNodes) \ {v} : Rejects(idx, w, p, NoneScalar)
              /\ \A j \in AllIdx \ {idx} : Rejects(j, v, p, NoneScalar)
              /\ \A k \in 1..Len(p) : \A x \in (Vals \cup StoreNodes) \ {p[k]} :
                     Rejects(idx, v, Replace(p, k, x), NoneScalar)

\* C4 amended: for every (idx, val, proof) verify_proof accepts against the
\* current root, a different val, or a different digest in place of any one
\* of the depth siblings the fold reads, makes verify_proof return false;
\* a different idx makes it return false exactly when, at some level where
\* the low TreeDepth bits of the two indices differ, the sibling differs
\* from the folded value below that level (an idx that differs only above
\* those bits, or only at levels whose sibling equals the folded value, is
\* still accepted); entries of the proof beyond the first depth are not
\* read.
C4_Rejection ==
    /\ AfterWrite =>
          \A idx \in ProbeIdx :
              LET p == ProofOf(Tree, idx)
                  v == LeafOf(Tree, idx)
              IN  /\ Accepts(idx, v, p, NoneScalar)
                  /\ \A w \in (Vals \cup StoreNodes) \ {v} :
                         Rejects(idx, w, p, NoneScalar)
                  /\ \A k \in 1..depth : \A x \in (Vals \cup StoreNodes) \ {p[k]} :
                         Rejects(idx, v, Replace(p, k, x), NoneScalar)
                  /\ \A j \in AllIdx \ {idx} :
                         LET differs == \E i \in 0..(depth - 1) :
                                 /\ PathBit(idx, i) # PathBit(j, i)
                                 /\ p[depth - i] # Fold(idx, v, Reverse(p), i)
                         IN  IF differs THEN Rejects(j, v, p, NoneScalar)
                             ELSE Accepts(j, v, p, NoneScalar)
                  /\ \A x \in Vals : \A y \in Vals \ {x} :
                         /\ Accepts(idx, v, p \o <<x>>, NoneScalar)
                         /\ Accepts(idx, v, Replace(p \o <<x>>, depth + 1, y),
                                    NoneScalar)
    /\ (last.op = "verify_proof" /\ last.alt \in {"val", "sibling"}) =>
          (last.status = "ok" /\ ~last.ok)

C4_Witness ==
    /\ nupd > 0
    /\ root # empty_tree_hashes[depth + 1]
    /\ last.op = "verify_proof" /\ last.alt = "idx"
    /\ last.status = "ok" /\ last.ok

\* The gadget run on the committed leaf, selector bits and leaf-first
\* siblings against a public root, the hash gadget never failing.
RunGadget(root_scalar, leaf_val, bits, nodes) ==
    vanilla_merkle_merkle_tree_verif_gadget(NewCS, depth, root_scalar, leaf_val,
                                            bits, nodes, depth)

\* Sibling sequences of length depth: what get returns for some path, that
\* reversed, and that with one digest replaced.
ProofCandidates ==
    UNION {
      LET p == ProofOf(Tree, i)
      IN  {p, Reverse(p)}
          \cup {Replace(p, k, x) : k \in 1..Len(p), x \in Vals}
      : i \in ProbeIdx }

\* C5: for every idx, val, sibling sequence and public root, with selector
\* bit i the i-th least significant bit of idx and the siblings handed over
\* leaf-first (the reverse of the sequence verify_proof takes), the
\* gadget's constraints are satisfied exactly when verify_proof(idx, val,
\* proof, Some(root)) is true; level i hashes (sibling, running) when the
\* bit is 1 and (running, sibling) when it is 0, and the one equality
\* constraint equates the final value and the root.
C5_CircuitEquivalence ==
    /\ AfterWrite =>
          \A idx \in ProbeIdx, val \in Vals, proof \in ProofCandidates,
             r \in {root, empty_tree_hashes[depth + 1]} :
              LET nodes == Reverse(proof)
                  g == RunGadget(r, val, get_bits(idx, TreeDepth), nodes)
              IN  /\ g.status = "Ok"
                  /\ Satisfied(g) = verify_proof(Tree, idx, val, proof, Some(r)).ret
                  /\ Len(g.cs.hashes) = depth
                  /\ \A i \in 0..(depth - 1) :
                         g.cs.hashes[i + 1] =
                             IF PathBit(idx, i) = 1
                             THEN <<nodes[i + 1], Fold(idx, val, nodes, i)>>
                             ELSE <<Fold(idx, val, nodes, i), nodes[i + 1]>>
                  /\ g.cs.constraints = << <<Fold(idx, val, nodes, depth), r>> >>
    /\ (last.op = "gadget" /\ last.alt = "none" /\ last.status = "Ok") => last.ok

C5_Witness ==
    /\ nupd > 0
    /\ root # empty_tree_hashes[depth + 1]
    /\ last.op = "gadget" /\ last.alt = "none"
    /\ last.status = "Ok" /\ last.ok
    /\ last.cs.hashes = depth /\ last.cs.constraints = 1

\* Every vector of depth selector bits.
BitVectors == [1..depth -> {0, 1}]

\* C6 as stated: for every assignment of leaf, boolean selector bits and
\* siblings that satisfies the gadget for a public root, changing the leaf,
\* complementing one selector bit, or replacing one sibling gives an
\* assignment that does not satisfy it.
C6_AnyChangeRejected ==
    \A idx \in ProbeIdx, b \in BitVectors :
        LET v == LeafOf(Tree, idx)
            n == Reverse(ProofOf(Tree, idx))
        IN  Satisfied(RunGadget(root, v, b, n)) =>
              /\ \A w \in (Vals \cup StoreNodes) \ {v} :
                     ~Satisfied(RunGadget(root, w, b, n))
              /\ \A k \in 1..depth :
                     ~Satisfied(RunGadget(root, v, Replace(b, k, 1 - b[k]), n))
              /\ \A k \in 1..depth : \A x \in (Vals \cup StoreNodes) \ {n[k]} :
                     ~Satisfied(RunGadget(root, v, b, Replace(n, k, x)))

\* The running value the gadget holds below level n for boolean selectors.
RECURSIVE Running(_, _, _, _)
Running(val, b, nodes, n) ==
    IF n = 0 THEN val
    ELSE IF b[n] = 1
    THEN Poseidon_hash_2(nodes[n], Running(val, b, nodes, n - 1))
    ELSE Poseidon_hash_2(Running(val, b, nodes, n - 1), nodes[n])

\* C6 amended: for every assignment of leaf, boolean selector bits and
\* siblings that satisfies the gadget for a public root, changing the leaf
\* or replacing one sibling by a different digest gives an assignment that
\* does not satisfy it; complementing selector bit i gives one that does
\* not satisfy it exactly when sibling i differs from the running value
\* below level i (where they are equal, the complemented bit still
\* satisfies the constraints).
C6_CircuitRejection ==
    /\ AfterWrite =>
          \A idx \in ProbeIdx, b \in BitVectors :
              LET v == LeafOf(Tree, idx)
                  n == Reverse(ProofOf(Tree, idx))
              IN  /\ Satisfied(RunGadget(root, v, get_bits(idx, TreeDepth), n))
                  /\ Satisfied(RunGadget(root, v, b, n)) =>
                       /\ \A w \in (Vals \cup StoreNodes) \ {v} :
                              ~Satisfied(RunGadget(root, w, b, n))
                       /\ \A k \in 1..depth :
                              \A x \in (Vals \cup StoreNodes) \ {n[k]} :
                                  ~Satisfied(RunGadget(root, v, b, Replace(n, k, x)))
                       /\ \A k \in 1..depth :
                              Satisfied(RunGadget(root, v, Replace(b, k, 1 - b[k]), n))
                                  = (n[k] = Running(v, b, n, k - 1))
    /\ (last.op = "gadget" /\ last.alt \in {"val", "sibling"}) =>
          (last.status = "Ok" /\ ~last.ok)

C6_Witness ==
    /\ nupd > 0
    /\ root # empty_tree_hashes[depth + 1]
    /\ last.op = "gadget" /\ last.alt = "bit"
    /\ last.status = "Ok" /\ last.ok

\* C7: right after new(), the table has depth+1 entries, entry 0 the empty
\* leaf zero and entry i the hash of entry i-1 with itself, the root is
\* entry depth, and the store maps each entry i >= 1 to the pair (entry
\* i-1, entry i-1) and holds nothing else.
C7_DefaultTree ==
    nupd = 0 =>
      /\ depth = TreeDepth
      /\ Len(empty_tree_hashes) = depth + 1
      /\ empty_tree_hashes[1] = 0
      /\ \A i \in 1..depth :
             empty_tree_hashes[i + 1] =
                 Poseidon_hash_2(empty_tree_hashes[i], empty_tree_hashes[i])
      /\ root = empty_tree_hashes[depth + 1]
      /\ DOMAIN db = {to_bytes(empty_tree_hashes[i + 1]) : i \in 1..depth}
      /\ Cardinality(DOMAIN db) = depth
      /\ \A i \in 1..depth :
             db[to_bytes(empty_tree_hashes[i + 1])] =
                 <<empty_tree_hashes[i], empty_tree_hashes[i]>>

C7_Witness ==
    /\ nupd = 0
    /\ last.op = "get" /\ last.alt = "none" /\ last.status = "ok"
    /\ last.ret = 0
    /\ last.proof = Reverse(SubSeq(empty_tree_hashes, 1, depth))

\* C8: in any reachable state, update(idx, val) called a second time with
\* the same arguments right after the first returns the same root and
\* leaves the root field and the whole store as the first call left them.
C8_UpdateIdempotent ==
    /\ AfterWrite =>
          \A idx \in AllIdx, val \in Vals :
              LET u1 == update(Tree, idx, val)
                  u2 == update(u1.self, idx, val)
              IN  /\ u1.status = "ok" /\ u2.status = "ok"
                  /\ u2.ret = u1.ret
                  /\ u2.self.root = u1.self.root
                  /\ u2.self.db = u1.self.db
    /\ (last.op = "update" /\ last.repeat) =>
          /\ last.status = "ok"
          /\ last.ret = before.root
          /\ root = before.root
          /\ db = before.db

C8_Witness ==
    /\ last.op = "update" /\ last.repeat
    /\ last.val # 0
    /\ before.root # empty_tree_hashes[depth + 1]
    /\ db = before.db

\* C9: verify_proof returns a boolean and never fails fatally, whatever
\* idx, val, root override and proof it is given, a proof shorter or longer
\* than depth included.
C9_NeverFatal ==
    last.op = "verify_proof" => last.status = "ok"

\* C10: in every state reachable from new() by update calls, every digest a
\* root-to-leaf traversal of depth levels visits, for every index, has an
\* entry in the store: neither get nor the get step of update misses.
C10_StoreComplete ==
    /\ AfterWrite =>
          /\ \A idx \in AllIdx :
                 /\ get(Tree, idx, NoneVec).status = "ok"
                 /\ get(Tree, idx, Some(<<>>)).status = "ok"
          /\ \A idx \in AllIdx, val \in Vals : update(Tree, idx, val).status = "ok"
    /\ last.op \in {"get", "update"} => last.status = "ok"

C10_Witness ==
    /\ nupd = MaxUpdates
    /\ Cardinality(DOMAIN db) > depth + 1
    /\ last.op = "get" /\ last.status = "ok"
    /\ last.ret # 0

\* Every entry of store t1 is in store t2 with the same pair, and t2 has at
\* most n keys more.
Extends(t1, t2, n) ==
    /\ \A k \in DOMAIN t1 : k \in DOMAIN t2 /\ t2[k] = t1[k]
    /\ Cardinality((DOMAIN t2) \ (DOMAIN t1)) <= n

\* C11: across every update call, each key the store held before the call
\* is still there afterwards with the same (left, right) pair and the call
\* adds at most depth new keys; a step of get or verify_proof leaves the
\* store and the root as they were.
C11_AppendOnly ==
    /\ [](AfterWrite =>
             \A idx \in AllIdx, val \in Vals :
                 LET u == update(Tree, idx, val)
                 IN  u.status = "ok" /\ Extends(db, u.self.db, depth))
    /\ []((last.op = "update") =>
             (last.status = "ok" /\ Extends(before.db, db, depth)))
    /\ [][(last'.op = "update") => Extends(db, db', depth)]_vars
    /\ [][(last'.op \in {"get", "verify_proof"}) => UNCHANGED <<db, root>>]_vars

C11_Witness ==
    /\ last.op = "update" /\ last.status = "ok"
    /\ nupd = MaxUpdates
    /\ root # before.root
    /\ before.root # empty_tree_hashes[depth + 1]
    /\ Cardinality((DOMAIN db) \ (DOMAIN before.db)) = depth
    /\ \A k \in DOMAIN before.db : k \in DOMAIN db /\ db[k] = before.db[k]

\* C12: with sib the sibling sequence get(idx) returns just before
\* update(idx, val), after the update the value update returned is the
\* root field, verify_proof(idx, val, sib, None) is true, and get(idx)
\* returns val with the same sibling sequence sib.
C12_UpdateFoldsAlongSiblings ==
    /\ AfterWrite =>
          \A idx \in AllIdx, val \in Vals :
              LET sib == ProofOf(Tree, idx)
                  u == update(Tree, idx, val)
                  g == get(u.self, idx, Some(<<>>))
              IN  /\ u.status = "ok"
                  /\ u.ret = u.self.root
                  /\ u.ret = Fold(idx, val, Reverse(sib), depth)
                  /\ verify_proof(u.self, idx, val, sib, NoneScalar)
                         = [status |-> "ok", ret |-> TRUE]
                  /\ g.status = "ok"
                  /\ g.ret = val
                  /\ g.proof.v = sib
    /\ (last.op = "update") =>
          LET sib == ProofOf(before, last.idx)
          IN  /\ last.status = "ok"
              /\ last.ret = root
              /\ Accepts(last.idx, last.val, sib, NoneScalar)
              /\ LeafOf(Tree, last.idx) = last.val
              /\ ProofOf(Tree, last.idx) = sib

C12_Witness ==
    /\ last.op = "update" /\ last.status = "ok"
    /\ last.val # 0
    /\ root # before.root
    /\ ProofOf(before, last.idx) # ProofOf(new, last.idx)
    /\ last.ret = root
    /\ Accepts(last.idx, last.val, ProofOf(before, last.idx), NoneScalar)
    /\ ProofOf(Tree, last.idx) = ProofOf(before, last.idx)

\* C13: with (val, proof) what get(idx) returns in a state with root r,
\* after update(j, w), j an index other than idx and w other than the value
\* get(j) returned, verify_proof(idx, val, proof, None) is false against
\* the new root and verify_proof(idx, val, proof, Some(r)) is true.
C13_StaleProofs ==
    /\ AfterWrite =>
          \A j \in AllIdx : \A w \in Vals \ {LeafOf(Tree, j)} :
              LET u == update(Tree, j, w)
              IN  /\ u.status = "ok"
                  /\ u.self.root # root
                  /\ \A idx \in ProbeIdx \ {j} :
                         LET g == get(Tree, idx, Some(<<>>))
                         IN  /\ verify_proof(u.self, idx, g.ret, g.proof.v, NoneScalar)
                                    = [status |-> "ok", ret |-> FALSE]
                             /\ verify_proof(u.self, idx, g.ret, g.proof.v, Some(root))
                                    = [status |-> "ok", ret |-> TRUE]
    /\ (last.op = "verify_proof" /\ last.alt = "stale") =>
          (last.status = "ok" /\ last.ok = last.root_some)

C13_Witness ==
    /\ nupd = MaxUpdates
    /\ before.root # empty_tree_hashes[depth + 1]
    /\ root # before.root
    /\ last.op = "verify_proof" /\ last.alt = "stale"
    /\ ~last.root_some
    /\ last.status = "ok" /\ ~last.ok

\* C14: the gadget processes levels 0..depth-1 in order; when the hash
\* gadget fails at level i the gadget returns the error at once: the
\* constraint system holds the gates and hash steps of levels 0..i-1 and
\* the four gates of level i, nothing of any level above i, and no
\* constraint on the root; it returns Ok only with all depth levels and the
\* root constraint added.
C14_GadgetAbort ==
    /\ AfterWrite =>
          \A idx \in ProbeIdx, f \in 0..depth :
              LET v == LeafOf(Tree, idx)
                  b == get_bits(idx, TreeDepth)
                  n == Reverse(ProofOf(Tree, idx))
                  full == RunGadget(root, v, b, n)
                  g == vanilla_merkle_merkle_tree_verif_gadget(
                           NewCS, depth, root, v, b, n, f)
              IN  IF f < depth
                  THEN /\ g.status = "Err"
                       /\ g.cs.multipliers = SubSeq(full.cs.multipliers, 1, 4 * (f + 1))
                       /\ g.cs.hashes = SubSeq(full.cs.hashes, 1, f)
                       /\ g.cs.constraints = <<>>
                  ELSE /\ g.status = "Ok"
                       /\ Len(g.cs.multipliers) = 4 * depth
                       /\ Len(g.cs.hashes) = depth
                       /\ Len(g.cs.constraints) = 1
                       /\ g.cs.constraints[1][2] = root
    /\ (last.op = "gadget" /\ last.status = "Err") =>
          /\ last.cs.hashes < depth
          /\ last.cs.multipliers = 4 * (last.cs.hashes + 1)
          /\ last.cs.constraints = 0
          /\ ~last.ok
    /\ (last.op = "gadget" /\ last.status = "Ok") =>
          /\ last.cs.hashes = depth
          /\ last.cs.multipliers = 4 * depth
          /\ last.cs.constraints = 1

C14_Witness ==
    /\ nupd > 0
    /\ root # empty_tree_hashes[depth + 1]
    /\ last.op = "gadget" /\ last.status = "Err"
    /\ last.cs.hashes = 1
    /\ last.cs.multipliers = 8
    /\ last.cs.constraints = 0

\* Selector assignments: every vector of bits, and each with one entry
\* replaced by the scalar 2.
SelectorVectors ==
    BitVectors \cup {Replace(b, k, 2) : b \in BitVectors, k \in 1..depth}

\* The value the gadget holds below level n for any selector assignment:
\* left = (1-bit)*P + bit*sibling, right = bit*P + (1-bit)*sibling.
RECURSIVE Mixed(_, _, _, _)
Mixed(val, b, nodes, n) ==
    IF n = 0 THEN val
    ELSE LET P == Mixed(val, b, nodes, n - 1)
         IN  Poseidon_hash_2((1 - b[n]) * P + b[n] * nodes[n],
                             b[n] * P + (1 - b[n]) * nodes[n])

\* C15: besides what the hash gadget adds, the gadget allocates four
\* multiplication gates per level, (1-bit)*P, bit*sibling, bit*P and
\* (1-bit)*sibling in that order, 4*depth in all, and adds one equality
\* constraint, final value = public root; nothing constrains a selector to
\* {0,1}: an assignment with a selector that is no bit satisfies the
\* constraints exactly when the fold of the mixed left and right values
\* equals the root, as it does when the sibling of that level equals the
\* running value.
C15_ConstraintShape ==
    /\ AfterWrite =>
          \A idx \in ProbeIdx, b \in SelectorVectors :
              LET v == LeafOf(Tree, idx)
                  n == Reverse(ProofOf(Tree, idx))
                  g == RunGadget(root, v, b, n)
              IN  /\ g.status = "Ok"
                  /\ Len(g.cs.multipliers) = 4 * depth
                  /\ \A i \in 1..depth :
                         LET P == Mixed(v, b, n, i - 1)
                         IN  /\ g.cs.multipliers[4 * i - 3] = <<1 - b[i], P, (1 - b[i]) * P>>
                             /\ g.cs.multipliers[4 * i - 2] = <<b[i], n[i], b[i] * n[i]>>
                             /\ g.cs.multipliers[4 * i - 1] = <<b[i], P, b[i] * P>>
                             /\ g.cs.multipliers[4 * i] = <<1 - b[i], n[i], (1 - b[i]) * n[i]>>
                  /\ g.cs.constraints = << <<Mixed(v, b, n, depth), root>> >>
                  /\ Satisfied(g) = (Mixed(v, b, n, depth) = root)
                  /\ \A k \in 1..depth :
                         (b \in BitVectors /\ Satisfied(g) /\ n[k] = Running(v, b, n, k - 1))
                             => Satisfied(RunGadget(root, v, Replace(b, k, 2), n))
    /\ (last.op = "gadget" /\ last.status = "Ok") =>
          (last.cs.multipliers = 4 * depth /\ last.cs.constraints = 1)
    /\ (last.op = "gadget" /\ last.alt = "nonbool") => last.status = "Ok"

C15_Witness ==
    /\ nupd > 0
    /\ root # empty_tree_hashes[depth + 1]
    /\ last.op = "gadget" /\ last.alt = "nonbool"
    /\ last.status = "Ok" /\ last.ok
    /\ last.cs.multipliers = 4 * depth
    /\ last.cs.constraints = 1

\* Every order in which the elements of S can be taken, once each.
Orders(S) ==
    {o \in [1..Cardinality(S) -> S] :
        \A i \in DOMAIN o, j \in DOMAIN o : i # j => o[i] # o[j]}

\* Tree t after update(order[k], assign[order[k]]) for k, k+1, ...
RECURSIVE Replay(_, _, _, _)
Replay(t, order, assign, k) ==
    IF k > Len(order) THEN t
    ELSE Replay(update(t, order[k], assign[order[k]]).self, order, assign, k + 1)

\* C16: any sequence of updates on a fresh tree that leaves the same
\* index-to-value assignment as the updates made so far (an index never
\* written counting as zero) gives the same root: the indices written,
\* with or without those whose value is zero, updated once each in any
\* order.
C16_HistoryIndependence ==
    \A T \in SUBSET (DOMAIN written) :
        {i \in DOMAIN written : written[i] # 0} \subseteq T =>
            \A o \in Orders(T) : Replay(new, o, written, 1).root = root

\* The leaf of every path of the tree.
Leaves == [p \in Paths |-> LeafOf(Tree, p)]

\* History independence by path: updating a fresh tree once for each path
\* whose leaf is not zero, and possibly for one whose leaf is zero, in any
\* order, gives the root of the tree.
HistoryIndependenceByPath ==
    AfterWrite =>
        LET nz == {p \in Paths : Leaves[p] # 0}
        IN  \A T \in {nz} \cup {nz \cup {p} : p \in Paths} :
                \A o \in Orders(T) : Replay(new, o, Leaves, 1).root = root

\* C17: in every state reachable from new() by update calls, get(idx)
\* returns the empty leaf zero for every index no update has written.
C17_UnwrittenReadZero ==
    \A idx \in AllIdx \ (DOMAIN written) : LeafOf(Tree, idx) = 0

\* Unwritten paths read as empty: get(idx) returns zero for every index
\* that shares its path with no index written.
UnwrittenPathReadsZero ==
    \A idx \in AllIdx :
        (\A j \in DOMAIN written :
             from_scalar(j, TreeDepth) # from_scalar(idx, TreeDepth))
        => LeafOf(Tree, idx) = 0

\* Proofs taken from the tree as it is and as it was before the most recent
\* update, and one a sibling short.
TakenProofs ==
    UNION {{ProofOf(Tree, i), ProofOf(before, i),
            SubSeq(ProofOf(Tree, i), 2, depth)} : i \in ProbeIdx}

\* C18: verify_proof with a root supplied does not depend on the state of
\* the tree it is called on: for the same idx, val, proof and root it
\* returns the same on the tree as it is, on the tree as it was before the
\* most recent update, and on a fresh tree.
C18_OverrideIndependent ==
    /\ AfterWrite =>
          \A idx \in ProbeIdx, val \in Vals, proof \in TakenProofs,
             r \in {root, before.root, new.root} :
              LET here == verify_proof(Tree, idx, val, proof, Some(r))
              IN  /\ verify_proof(before, idx, val, proof, Some(r)) = here
                  /\ verify_proof(new, idx, val, proof, Some(r)) = here
    /\ (last.op = "verify_proof" /\ last.alt = "stale" /\ last.root_some) =>
          (last.status = "ok" /\ last.ok)

C18_Witness ==
    /\ nupd = MaxUpdates
    /\ before.root # empty_tree_hashes[depth + 1]
    /\ root # before.root
    /\ root # empty_tree_hashes[depth + 1]
    /\ last.op = "verify_proof" /\ last.alt = "stale"
    /\ last.root_some
    /\ last.status = "ok" /\ last.ok

====
